---- MODULE Spec2Model ----
(***************************************************************************)
(* A model of the two-tier cache engine of go-cache-plugin: the build      *)
(* cache adapter (gobuild.GCSCache) over a local stage and a GCS bucket,   *)
(* with its background upload pipeline, and the module adapter            *)
(* (modproxy.StorageCacher): its fault-in, its local directory and its     *)
(* write-back.                                                             *)
(***************************************************************************)
EXTENDS Integers, Sequences, FiniteSets, TLC

(***************************************************************************)
(* Bounds of the model.                                                    *)
(***************************************************************************)
MaxPuts == 2          \* Put requests issued over a run
MaxGets == 2          \* Get requests issued over a run
MaxFaults == 1        \* injected I/O failures and timeouts over a run
MaxRestarts == 1      \* fresh instances started after a Close
MaxRequests == 2      \* request slots of the caller framework

(***************************************************************************)
(* Configuration and runtime values.                                       *)
(***************************************************************************)
MinUploadSize == 2
NumCPU == 2
FlagKeyPrefix == <<"p">>         \* the --prefix flag of the runs modelled
PrefixChoices == {<<>>, FlagKeyPrefix}   \* values of the KeyPrefix field
ConcurrencyChoices == {0, 1}     \* values of the UploadConcurrency field
MaxTasksChoices == {0, 1}        \* values of the MaxTasks field

\* Configuration fields, fixed when the adapters are constructed.
VARIABLES
    KeyPrefix,   \* the KeyPrefix field of the build adapter (the --prefix flag)
    MaxTasks     \* the MaxTasks field of the module adapter

(***************************************************************************)
(* Identifiers are lower-case hexadecimal strings, modelled as sequences   *)
(* of one-character strings.  Outputs are content addressed: the output id *)
(* determines the body.                                                    *)
(***************************************************************************)
A1 == <<"a", "a", "1">>
A2 == <<"a", "b", "2">>
O1 == <<"c", "c", "1">>
O2 == <<"d", "d", "2">>
ActionIDs == {A1, A2}
OutputIDs == {O1, O2}
PutInputs ==                     \* the Put requests the toolchain may issue
    { [a |-> A1, o |-> O2, t |-> 5],
      [a |-> A2, o |-> O2, t |-> 17],
      [a |-> A2, o |-> O1, t |-> 5] }
Procs == 1..MaxRequests

\* Module names, with the lower-hex SHA-256 digest of each (shortened).
N1 == <<"x">>
N2 == <<"y">>
hashName(name) == IF name = N1 THEN <<"2", "d", "7">> ELSE <<"a", "1", "f">>
ModNames == {N1, N2}
ModHashes == {hashName(n) : n \in ModNames}
ModInputs ==                     \* the Put requests the module proxy may issue
    { [name |-> N1, body |-> <<"y">>],
      [name |-> N2, body |-> <<"v", "w">>] }

BodyOf(o) == IF o = O1 THEN <<"x">> ELSE <<"y", "z">>

Empty == <<>>                    \* the empty string

(***************************************************************************)
(* path.Join: joins the non-empty elements with a slash.                   *)
(***************************************************************************)
RECURSIVE PathJoin(_)
PathJoin(parts) ==
    IF parts = <<>> THEN Empty
    ELSE LET rest == PathJoin(Tail(parts))
         IN  IF Head(parts) = Empty THEN rest
             ELSE IF rest = Empty THEN Head(parts)
             ELSE Head(parts) \o <<"/">> \o rest

makeKeyM(parts) == KeyPrefix \o <<"/">> \o PathJoin(parts)

\* GCSCache.makeKey: path.Join(s.KeyPrefix, path.Join(parts...))
makeKey(parts) == PathJoin(<<KeyPrefix, PathJoin(parts)>>)

\* initModProxy: KeyPrefix of the module adapter is path.Join(prefix, "module").
ModKeyPrefix == PathJoin(<<KeyPrefix, <<"m", "o", "d", "u", "l", "e">>>>)

\* StorageCacher.makeKey
modKey(hash) == PathJoin(<<ModKeyPrefix, SubSeq(hash, 1, 2), hash>>)

actionKey(id) == makeKey(<<(<<"a", "c", "t", "i", "o", "n">>), SubSeq(id, 1, 2), id>>)
outputKey(id) == makeKey(<<(<<"o", "u", "t", "p", "u", "t">>), SubSeq(id, 1, 2), id>>)

(***************************************************************************)
(* Decimal rendering and parsing of signed integers (fmt %d, ParseInt).    *)
(***************************************************************************)
DigitChars == <<"0", "1", "2", "3", "4", "5", "6", "7", "8", "9">>

RECURSIVE NatToDigits(_)
NatToDigits(n) ==
    IF n < 10 THEN <<DigitChars[n + 1]>>
    ELSE NatToDigits(n \div 10) \o <<DigitChars[(n % 10) + 1]>>

Itoa(n) == IF n < 0 THEN <<"-">> \o NatToDigits(0 - n) ELSE NatToDigits(n)

IsDigit(c) == \E i \in 1..10 : DigitChars[i] = c
DigitVal(c) == (CHOOSE i \in 1..10 : DigitChars[i] = c) - 1

RECURSIVE DigitsToNat(_, _)
DigitsToNat(s, acc) ==
    IF s = <<>> THEN acc ELSE DigitsToNat(Tail(s), acc * 10 + DigitVal(Head(s)))

\* strconv.ParseInt(s, 10, 64): [ok, val]
ParseInt(s) ==
    LET neg  == s # <<>> /\ Head(s) = "-"
        body == IF neg THEN Tail(s) ELSE s
    IN  IF body = <<>> \/ \E i \in 1..Len(body) : ~IsDigit(body[i])
        THEN [ok |-> FALSE, val |-> 0]
        ELSE [ok |-> TRUE,
              val |-> IF neg THEN 0 - DigitsToNat(body, 0) ELSE DigitsToNat(body, 0)]

\* strings.Fields: the maximal runs of non-space characters
RECURSIVE FieldsFrom(_, _, _)
FieldsFrom(s, cur, acc) ==
    IF s = <<>> THEN (IF cur = <<>> THEN acc ELSE Append(acc, cur))
    ELSE IF Head(s) = " "
         THEN FieldsFrom(Tail(s), <<>>, IF cur = <<>> THEN acc ELSE Append(acc, cur))
         ELSE FieldsFrom(Tail(s), Append(cur, Head(s)), acc)

Fields(s) == FieldsFrom(s, <<>>, <<>>)

\* fmt.Sprintf("%s %d", obj.OutputID, fi.ModTime().UnixNano())
formatAction(o, nanos) == o \o <<" ">> \o Itoa(nanos)

\* parseAction: the output id and the timestamp of an action record; content
\* after the second field is ignored.
parseAction(data) ==
    LET fs == Fields(data)
    IN  IF Len(fs) < 2 THEN [ok |-> FALSE, o |-> Empty, mtime |-> 0]
        ELSE LET ts == ParseInt(fs[2])
             IN  IF ~ts.ok THEN [ok |-> FALSE, o |-> Empty, mtime |-> 0]
                 ELSE [ok |-> TRUE, o |-> fs[1], mtime |-> ts.val]

\* The content hash the ETag reader computes over the bytes that pass
\* through it, and the ETag the store reports for an object's content.
ETag(body) == <<"md5">> \o body


(***************************************************************************)
(* State.                                                                  *)
(***************************************************************************)
VARIABLES
    remote,      \* the bucket: key -> content of the object stored at it
    localAct,    \* local stage: action id -> output id ("" when absent)
    localObj,    \* local stage: output id -> staged file (body, mtime)
    conc,        \* the UploadConcurrency field of the build adapter
    rq,          \* request slot -> the request being served and its locals
    res,         \* the result most recently returned to a caller
    tasks,       \* the upload tasks started in the task group, in start order
    m,           \* the expvar counters
    closed,      \* "open", "waiting" (Close is in push.Wait), "closed"
    faults,      \* failures injected so far
    faultLimit,  \* failures the environment may inject in this run
    inst,        \* fresh processes started so far
    hist,        \* eligible Puts that returned: (action, output, mtime, instance)
    nPuts,       \* Put requests issued, to either adapter
    nGets,       \* Get requests issued
    modLocal,    \* module adapter, local directory: digest -> file
    mrq,         \* module adapter: request slot -> the request being served
    mres,        \* module adapter: the result most recently returned to a caller
    mtasks,      \* module adapter: the write-back tasks started, in start order
    sema,        \* module adapter: the slots of the fault-in semaphore in use
    mm,          \* module adapter: the expvar counters
    mclosed      \* module adapter: "open", "waiting", "closed"

modVars == <<modLocal, mrq, mres, mtasks, sema, mm, mclosed>>

\* Configuration fields, fixed when the adapters are constructed.
cfgVars == <<KeyPrefix, MaxTasks>>

vars == <<remote, localAct, localObj, conc, rq, res, tasks, m, closed, faults,
          faultLimit, inst, hist, nPuts, nGets, modVars, cfgVars>>

NoFile == [present |-> FALSE, body |-> Empty, mtime |-> 0]
File(body, mtime) == [present |-> TRUE, body |-> body, mtime |-> mtime]

\* A request slot: pc is the handler's position; a, o, t are the request's
\* action id, output id and modification time; body and etag are locals.
Idle == [pc |-> "idle", a |-> Empty, o |-> Empty, t |-> 0, body |-> Empty,
         etag |-> Empty]
NoRes == [op |-> "none", a |-> Empty, out |-> Empty, path |-> Empty, err |-> "nil",
          via |-> "none", file |-> NoFile]

ZeroMetrics ==
    [getLocalHit |-> 0, getFaultHit |-> 0, getFaultMiss |-> 0, putSkipSmall |-> 0,
     putGCSFound |-> 0, putGCSAction |-> 0, putGCSObject |-> 0, putGCSError |-> 0]

\* The module adapter's counters.
ZeroModMetrics ==
    [pathError |-> 0, getRequest |-> 0, getLocalHit |-> 0, getLocalMiss |-> 0,
     getFaultHit |-> 0, getFaultMiss |-> 0, getLocalError |-> 0, getFaultError |-> 0,
     getLocalBytes |-> 0, getStorageBytes |-> 0, putRequest |-> 0, putLocalHit |-> 0,
     putLocalError |-> 0, putStorageError |-> 0, putLocalBytes |-> 0,
     putStorageBytes |-> 0]

\* A request slot of the module adapter: the request's name, its digest, the
\* data, and the size of the file a Put opened for the write-back.
ModIdle == [pc |-> "idle", name |-> Empty, hash |-> Empty, body |-> Empty, size |-> 0]

\* What the module adapter's Get or Put returned: the bytes of the reader a
\* Get returned, and the error.
ModNoRes == [op |-> "none", name |-> Empty, body |-> Empty, err |-> "nil"]
ModResult(op, name, body, err) == [op |-> op, name |-> name, body |-> body, err |-> err]

EmptyStore == [k \in {} |-> Empty]
StorePutM(store, k, v) == [x \in {k} |-> v]

\* Client.Put and the write of Client.PutCond: the object at the key is
\* created or replaced; the other objects are as they were.
StorePut(store, k, v) == [x \in (DOMAIN store) \cup {k} |-> IF x = k THEN v ELSE store[x]]

\* The path of an output's file in the local stage.
DiskPath(o) == <<"obj">> \o o

\* What Get returned: (output id, path, error), with how it was served and
\* the staged file at the path.
GetResult(a, out, path, err, via, file) ==
    [op |-> "get", a |-> a, out |-> out, path |-> path, err |-> err,
     via |-> via, file |-> file]

Bump(c) == [m EXCEPT ![c] = @ + 1]
CanFault == faults < faultLimit

\* The caller framework serves a new request in its first free slot.
FreeSlot(p) == rq[p].pc = "idle" /\ \A q \in Procs : q < p => rq[q].pc # "idle"

Active(i) == tasks[i].pc # "done"
ActiveTasks == {i \in 1..Len(tasks) : Active(i)}

(***************************************************************************)
(* Points of the code that the operations below are built from.            *)
(***************************************************************************)
\* GCSCache.uploadConcurrency
uploadConcurrency == IF conc <= 0 THEN NumCPU ELSE conc

SlotFreeM == TRUE

SlotFreeIdleM == ActiveTasks = {}

\* taskgroup.New(nil).Limit(n): start admits a task only while fewer than n
\* tasks started through it are running.
SlotFree == Cardinality(ActiveTasks) < uploadConcurrency

IsSmallM(size) == size < MinUploadSize - 1

\* obj.Size < s.MinUploadSize
IsSmall(size) == size < MinUploadSize

LocalHitM(a) == FALSE

\* Local.Get: a hit needs the action record and the object file it names.
LocalHit(a) == localAct[a] # Empty /\ localObj[localAct[a]].present

SctxDoneM(t) == t.timedOut \/ t.cancelled

\* context.WithTimeout(context.WithoutCancel(ctx), 1*time.Minute): the
\* upload's context ends with its own deadline only.
SctxDone(t) == t.timedOut

\* PutCond's test: the object exists and its ETag equals the content hash.
CondFound(key, etag) == key \in DOMAIN remote /\ ETag(remote[key]) = etag

AfterPutCondErrorM == "action"

\* The task's position after PutCond reported an error: it returns.
AfterPutCondError == "done"

UploadsDrainedM == TRUE

UploadsDrainedCleanM ==
    \A i \in 1..Len(tasks) : tasks[i].pc = "done" /\ tasks[i].err = "nil"

\* s.push.Wait() returns when no task of the group is running.
UploadsDrained == ActiveTasks = {}

CountStoredM(written) == IF written THEN Bump("putGCSObject") ELSE m

CountStoredBothM(written) ==
    IF written THEN Bump("putGCSObject")
    ELSE [m EXCEPT !.putGCSFound = @ + 1, !.putGCSObject = @ + 1]

\* The counter of PutCond's answer: the object was written, or was found.
CountStored(written) == IF written THEN Bump("putGCSObject") ELSE Bump("putGCSFound")

(***************************************************************************)
(* Initial states.                                                         *)
(***************************************************************************)
InitLocal ==
    /\ localAct = [a \in ActionIDs |-> Empty]
    /\ localObj = [o \in OutputIDs |-> NoFile]
    /\ conc \in ConcurrencyChoices
    /\ rq = [p \in Procs |-> Idle]
    /\ res = NoRes
    /\ tasks = <<>>
    /\ m = ZeroMetrics
    /\ closed = "open"
    /\ faults = 0
    /\ inst = 0
    /\ hist = {}
    /\ nPuts = 0
    /\ nGets = 0
    /\ modLocal = [h \in ModHashes |-> NoFile]
    /\ mrq = [p \in Procs |-> ModIdle]
    /\ mres = ModNoRes
    /\ mtasks = <<>>
    /\ sema = 0
    /\ mm = ZeroModMetrics
    /\ mclosed = "open"

\* The configuration as setup.go wires it: the --prefix flag, MaxTasks unset.
InitConfig == KeyPrefix = FlagKeyPrefix /\ MaxTasks = 0

\* The bucket starts empty: this engine is its only writer.
Init == InitConfig /\ remote = EmptyStore /\ faultLimit = MaxFaults /\ InitLocal

(***************************************************************************)
(* GCSCache.Get                                                            *)
(***************************************************************************)
\* Local.Get: a local hit returns at once; a miss or a local error goes on
\* to the remote action record.
GetLocal(p, a) ==
    /\ UNCHANGED <<modVars, cfgVars>>
    /\ FreeSlot(p) /\ closed = "open" /\ nGets < MaxGets
    /\ nGets' = nGets + 1
    /\ \/ /\ LocalHit(a)
          /\ m' = Bump("getLocalHit")
          /\ res' = GetResult(a, localAct[a], DiskPath(localAct[a]), "nil", "local",
                              localObj[localAct[a]])
          /\ UNCHANGED <<rq, faults>>
       \/ /\ ~LocalHit(a)
          /\ rq' = [rq EXCEPT ![p] = [Idle EXCEPT !.pc = "getAction", !.a = a]]
          /\ UNCHANGED <<m, res, faults>>
       \/ /\ CanFault                          \* the local read fails
          /\ faults' = faults + 1
          /\ rq' = [rq EXCEPT ![p] = [Idle EXCEPT !.pc = "getAction", !.a = a]]
          /\ UNCHANGED <<m, res>>
    /\ UNCHANGED <<remote, localAct, localObj, conc, tasks, closed, faultLimit, inst,
                   hist, nPuts>>

\* gcsutil.Client.Get (and GetData, which reads all of it): the content of
\* the object, fs.ErrNotExist when the bucket has no such object, or the
\* transport's error.
ClientGet(key) ==
    (IF key \in DOMAIN remote
     THEN {[err |-> "nil", data |-> remote[key]]}
     ELSE {[err |-> "ErrNotExist", data |-> Empty]})
    \cup (IF CanFault THEN {[err |-> "EIO", data |-> Empty]} ELSE {})

Injected(err) == IF err = "EIO" THEN 1 ELSE 0

ActionReadFailedM(a, err) ==
    [res |-> GetResult(a, Empty, Empty, "nil", "remote", NoFile),
     m   |-> Bump("getFaultMiss")]

\* Get, on an error of the action read: fs.ErrNotExist is a miss, any other
\* error is returned.
ActionReadFailed(a, err) ==
    IF err = "ErrNotExist"
    THEN [res |-> GetResult(a, Empty, Empty, "nil", "remote", NoFile),
          m   |-> Bump("getFaultMiss")]
    ELSE [res |-> GetResult(a, Empty, Empty, "read action", "remote", NoFile),
          m   |-> m]

ObjectReadFailedM(a, err) ==
    IF err = "ErrNotExist"
    THEN [res |-> GetResult(a, Empty, Empty, "nil", "remote", NoFile),
          m   |-> Bump("getFaultMiss")]
    ELSE [res |-> GetResult(a, Empty, Empty, "read object", "remote", NoFile),
          m   |-> m]

\* Get, on an error of the object read: the action exists, so every error,
\* a missing object too, is returned as an error.
ObjectReadFailed(a, err) ==
    [res |-> GetResult(a, Empty, Empty, "read object", "remote", NoFile),
     m   |-> m]

\* GCSClient.GetData(actionKey) and parseAction.
GetAction(p) ==
    /\ UNCHANGED <<modVars, cfgVars>>
    /\ rq[p].pc = "getAction"
    /\ \E got \in ClientGet(actionKey(rq[p].a)) :
          /\ faults' = faults + Injected(got.err)
          /\ IF got.err # "nil"
             THEN /\ res' = ActionReadFailed(rq[p].a, got.err).res
                  /\ m' = ActionReadFailed(rq[p].a, got.err).m
                  /\ rq' = [rq EXCEPT ![p] = Idle]
             ELSE LET act == parseAction(got.data)
                  IN  /\ IF act.ok
                         THEN /\ rq' = [rq EXCEPT ![p].pc = "getOutput", ![p].o = act.o,
                                                  ![p].t = act.mtime]
                              /\ UNCHANGED res
                         ELSE /\ res' = GetResult(rq[p].a, Empty, Empty, "parse action",
                                                  "remote", NoFile)
                              /\ rq' = [rq EXCEPT ![p] = Idle]
                      /\ UNCHANGED m
    /\ UNCHANGED <<remote, localAct, localObj, conc, tasks, closed, faultLimit, inst,
                   hist, nPuts, nGets>>

\* GCSClient.Get(outputKey).
GetOutput(p) ==
    /\ UNCHANGED <<modVars, cfgVars>>
    /\ rq[p].pc = "getOutput"
    /\ \E got \in ClientGet(outputKey(rq[p].o)) :
          /\ faults' = faults + Injected(got.err)
          /\ IF got.err # "nil"
             THEN /\ res' = ObjectReadFailed(rq[p].a, got.err).res
                  /\ m' = ObjectReadFailed(rq[p].a, got.err).m
                  /\ rq' = [rq EXCEPT ![p] = Idle]
             ELSE /\ m' = Bump("getFaultHit")
                  /\ rq' = [rq EXCEPT ![p].pc = "getStage", ![p].body = got.data]
                  /\ UNCHANGED res
    /\ UNCHANGED <<remote, localAct, localObj, conc, tasks, closed, faultLimit, inst,
                   hist, nPuts, nGets>>

\* Local.Put of the fetched object, with the action's timestamp.
GetStage(p) ==
    /\ UNCHANGED <<modVars, cfgVars>>
    /\ rq[p].pc = "getStage"
    /\ LET a == rq[p].a
           o == rq[p].o
           f == File(rq[p].body, rq[p].t)
       IN  \/ /\ CanFault                      \* the local write fails
              /\ faults' = faults + 1
              /\ res' = GetResult(a, o, Empty, "local put", "remote", NoFile)
              /\ UNCHANGED <<localAct, localObj>>
           \/ /\ localObj' = [localObj EXCEPT ![o] = f]
              /\ localAct' = [localAct EXCEPT ![a] = o]
              /\ res' = GetResult(a, o, DiskPath(o), "nil", "remote", f)
              /\ UNCHANGED faults
    /\ rq' = [rq EXCEPT ![p] = Idle]
    /\ UNCHANGED <<remote, conc, tasks, m, closed, faultLimit, inst, hist, nPuts, nGets>>

(***************************************************************************)
(* GCSCache.Put                                                            *)
(***************************************************************************)
PutResult(a, o, path, err, file) ==
    [op |-> "put", a |-> a, out |-> o, path |-> path, err |-> err,
     via |-> "local", file |-> file]

LocalPutFailedM(in) ==
    [res |-> PutResult(in.a, in.o, Empty, "local put", NoFile),
     m   |-> Bump("putGCSError")]

\* Put, on an error of Local.Put: the error is returned and nothing else is
\* done.
LocalPutFailed(in) ==
    [res |-> PutResult(in.a, in.o, Empty, "local put", NoFile),
     m   |-> m]

\* The ETag reader, Local.Put and the size test.
PutLocal(p, in) ==
    /\ UNCHANGED <<modVars, cfgVars>>
    /\ FreeSlot(p) /\ closed = "open" /\ nPuts < MaxPuts
    /\ nPuts' = nPuts + 1
    /\ LET body == BodyOf(in.o)
           f    == File(body, in.t)
       IN  \/ /\ CanFault                      \* the local write fails
              /\ faults' = faults + 1
              /\ res' = LocalPutFailed(in).res
              /\ m' = LocalPutFailed(in).m
              /\ UNCHANGED <<localAct, localObj, rq>>
           \/ /\ localObj' = [localObj EXCEPT ![in.o] = f]
              /\ localAct' = [localAct EXCEPT ![in.a] = in.o]
              /\ UNCHANGED faults
              /\ IF IsSmall(Len(body))
                 THEN /\ m' = Bump("putSkipSmall")
                      /\ res' = PutResult(in.a, in.o, DiskPath(in.o), "nil", f)
                      /\ UNCHANGED rq
                 ELSE /\ rq' = [rq EXCEPT ![p] =
                             [pc |-> "putStart", a |-> in.a, o |-> in.o, t |-> in.t,
                              body |-> Empty, etag |-> ETag(body)]]
                      /\ UNCHANGED <<m, res>>
    /\ UNCHANGED <<remote, conc, tasks, closed, faultLimit, inst, hist, nGets>>

\* An upload task: a, o, t are the Put's action id, output id and
\* modification time; etag is the hash the ETag reader computed; body and
\* mtime are the staged file as the task opened it.
NewTask(a, o, t, etag) ==
    [a |-> a, o |-> o, t |-> t, etag |-> etag, pc |-> "open", body |-> Empty,
     mtime |-> 0, cancelled |-> FALSE, timedOut |-> FALSE, err |-> "nil",
     stored |-> "none"]

\* s.start(task): waits for a slot of the limiter, starts the task in the
\* group, and Put returns the local path.
PutStart(p) ==
    /\ UNCHANGED <<modVars, cfgVars>>
    /\ rq[p].pc = "putStart"
    /\ SlotFree
    /\ tasks' = Append(tasks, NewTask(rq[p].a, rq[p].o, rq[p].t, rq[p].etag))
    /\ res' = PutResult(rq[p].a, rq[p].o, DiskPath(rq[p].o), "nil", localObj[rq[p].o])
    /\ hist' = hist \cup {[a |-> rq[p].a, o |-> rq[p].o, t |-> rq[p].t, inst |-> inst]}
    /\ rq' = [rq EXCEPT ![p] = Idle]
    /\ UNCHANGED <<remote, localAct, localObj, conc, m, closed, faults, faultLimit, inst,
                   nPuts, nGets>>

(***************************************************************************)
(* The background upload task of a Put.                                    *)
(***************************************************************************)
TaskFrame == <<localAct, localObj, conc, rq, res, closed, faultLimit, inst, hist,
               nPuts, nGets>>

\* os.Open(diskPath) and f.Stat(): the task holds the staged file as it is now.
TaskOpen(i) ==
    /\ UNCHANGED <<modVars, cfgVars>>
    /\ i \in 1..Len(tasks) /\ tasks[i].pc = "open"
    /\ LET f == localObj[tasks[i].o]
       IN  \/ /\ f.present
              /\ tasks' = [tasks EXCEPT ![i].pc = "cond", ![i].body = f.body,
                                        ![i].mtime = f.mtime]
              /\ UNCHANGED <<m, faults>>
           \/ /\ ~f.present \/ CanFault
              /\ faults' = IF f.present THEN faults + 1 ELSE faults
              /\ m' = Bump("putGCSError")
              /\ tasks' = [tasks EXCEPT ![i].pc = "done", ![i].err = "open"]
    /\ UNCHANGED remote
    /\ UNCHANGED TaskFrame

\* PutCond, first half: obj.Attrs and the ETag comparison.  Any error of
\* Attrs (the object is absent, the transport failed, the context is done)
\* leads to the write.
TaskCond(i) ==
    /\ UNCHANGED <<modVars, cfgVars>>
    /\ i \in 1..Len(tasks) /\ tasks[i].pc = "cond"
    /\ LET key == outputKey(tasks[i].o)
       IN  \/ /\ ~SctxDone(tasks[i])
              /\ CondFound(key, tasks[i].etag)
              /\ m' = CountStored(FALSE)
              /\ tasks' = [tasks EXCEPT ![i].pc = "action", ![i].stored = "found"]
              /\ UNCHANGED faults
           \/ /\ SctxDone(tasks[i]) \/ ~CondFound(key, tasks[i].etag)
              /\ tasks' = [tasks EXCEPT ![i].pc = "write"]
              /\ UNCHANGED <<m, faults>>
           \/ /\ CanFault /\ ~SctxDone(tasks[i]) /\ CondFound(key, tasks[i].etag)
              /\ faults' = faults + 1
              /\ tasks' = [tasks EXCEPT ![i].pc = "write"]
              /\ UNCHANGED m
    /\ UNCHANGED remote
    /\ UNCHANGED TaskFrame

\* PutCond, second half: the object is written from the open file.
TaskWrite(i) ==
    /\ UNCHANGED <<modVars, cfgVars>>
    /\ i \in 1..Len(tasks) /\ tasks[i].pc = "write"
    /\ LET key == outputKey(tasks[i].o)
       IN  \/ /\ ~SctxDone(tasks[i])
              /\ remote' = StorePut(remote, key, tasks[i].body)
              /\ m' = CountStored(TRUE)
              /\ tasks' = [tasks EXCEPT ![i].pc = "action", ![i].stored = "written"]
              /\ UNCHANGED faults
           \/ /\ SctxDone(tasks[i]) \/ CanFault
              /\ faults' = IF SctxDone(tasks[i]) THEN faults ELSE faults + 1
              /\ m' = Bump("putGCSError")
              /\ tasks' = [tasks EXCEPT ![i].pc = AfterPutCondError,
                                        ![i].err = "put object"]
              /\ UNCHANGED remote
    /\ UNCHANGED TaskFrame

\* Stage 2: GCSClient.Put of the action record.
TaskAction(i) ==
    /\ UNCHANGED <<modVars, cfgVars>>
    /\ i \in 1..Len(tasks) /\ tasks[i].pc = "action"
    /\ LET key == actionKey(tasks[i].a)
       IN  \/ /\ ~SctxDone(tasks[i])
              /\ remote' = StorePut(remote, key, formatAction(tasks[i].o, tasks[i].mtime))
              /\ m' = Bump("putGCSAction")
              /\ tasks' = [tasks EXCEPT ![i].pc = "done"]
              /\ UNCHANGED faults
           \/ /\ SctxDone(tasks[i]) \/ CanFault
              /\ faults' = IF SctxDone(tasks[i]) THEN faults ELSE faults + 1
              /\ tasks' = [tasks EXCEPT ![i].pc = "done", ![i].err = "write action"]
              /\ UNCHANGED <<remote, m>>
    /\ UNCHANGED TaskFrame

\* The task's one-minute deadline passes while it is still running.
TaskTimeout(i) ==
    /\ UNCHANGED <<modVars, cfgVars>>
    /\ i \in 1..Len(tasks) /\ Active(i) /\ ~tasks[i].timedOut
    /\ CanFault
    /\ faults' = faults + 1
    /\ tasks' = [tasks EXCEPT ![i].timedOut = TRUE]
    /\ UNCHANGED <<remote, m>>
    /\ UNCHANGED TaskFrame

\* The context of the request that issued the Put is cancelled after the
\* Put returned.
CancelRequest(i) ==
    /\ UNCHANGED <<modVars, cfgVars>>
    /\ i \in 1..Len(tasks) /\ Active(i) /\ ~tasks[i].cancelled
    /\ tasks' = [tasks EXCEPT ![i].cancelled = TRUE]
    /\ UNCHANGED <<remote, m, faults>>
    /\ UNCHANGED TaskFrame

(***************************************************************************)
(* GCSCache.Close, called by the server once, after its requests ended.    *)
(***************************************************************************)
CloseCall ==
    /\ UNCHANGED <<modVars, cfgVars>>
    /\ closed = "open"
    /\ \A p \in Procs : rq[p].pc = "idle"
    /\ closed' = "waiting"
    /\ UNCHANGED <<remote, localAct, localObj, conc, rq, res, tasks, m, faults,
                   faultLimit, inst, hist, nPuts, nGets>>

\* push.Wait() returns, then GCSClient.Close().
CloseReturn ==
    /\ UNCHANGED <<modVars, cfgVars>>
    /\ closed = "waiting"
    /\ UploadsDrained
    /\ closed' = "closed"
    /\ UNCHANGED <<remote, localAct, localObj, conc, rq, res, tasks, m, faults,
                   faultLimit, inst, hist, nPuts, nGets>>

\* GCSCache.Close has called s.GCSClient.Close(): the client, which setup.go
\* also gives to the module adapter, is closed.
ClientClosed == closed = "closed"

\* A fresh process over the same bucket, with an empty local stage.
Restart ==
    /\ UNCHANGED <<modVars, cfgVars>>
    /\ closed = "closed"
    /\ inst < MaxRestarts
    /\ inst' = inst + 1
    /\ localAct' = [a \in ActionIDs |-> Empty]
    /\ localObj' = [o \in OutputIDs |-> NoFile]
    /\ rq' = [p \in Procs |-> Idle]
    /\ res' = NoRes
    /\ tasks' = <<>>
    /\ m' = ZeroMetrics
    /\ closed' = "open"
    /\ UNCHANGED <<remote, conc, faults, faultLimit, hist, nPuts, nGets>>

(***************************************************************************)
(* The module adapter: StorageCacher.Get, Put and the write-back.          *)
(***************************************************************************)
\* StorageCacher.init: the limit of the write-back group and the capacity
\* of the fault-in semaphore.
modConcurrency == IF MaxTasks <= 0 THEN NumCPU ELSE MaxTasks

ModActive(i) == mtasks[i].pc # "done"

ModActiveTasks == {i \in 1..Len(mtasks) : ModActive(i)}

\* c.start admits a write-back when the group has a free slot.
ModSlotFree == Cardinality(ModActiveTasks) < modConcurrency

\* The Gets between c.sema.Acquire and the deferred c.sema.Release.
SemaHolders == {p \in Procs : mrq[p].pc \in {"fetch", "stage", "stageRename"}}

SemaFreeM == TRUE

SemaFreeSharedM == sema + Cardinality(ModActiveTasks) < modConcurrency

\* c.sema.Acquire(ctx, 1) returns nil while fewer slots than the capacity
\* are in use.
SemaFree == sema < modConcurrency

\* The slots in use after c.sema.Acquire(ctx, 1) returned nil.
semaAcquire(n) == n + 1

semaReleaseM(n) == n

\* The slots in use after the deferred c.sema.Release(1).
semaRelease(n) == n - 1

\* The context the write-back runs under: detached from the request's
\* context, with a deadline of its own.
ModSctxDone(t) == t.timedOut

ModStatFoundM(hash) == FALSE

\* putLocal's os.Stat(path): the file is in the local directory.
ModStatFound(hash) == modLocal[hash].present

WriteAllBeginM(hash, body) ==
    [modLocal EXCEPT ![hash] = File(SubSeq(body, 1, Len(body) - 1), 0)]

\* atomicfile.WriteAll, while it writes: the data goes to a temporary file
\* beside the path, so the files of the directory are as they were.
WriteAllBegin(hash, body) == modLocal

\* atomicfile.WriteAll, when it is done: the temporary file is renamed to
\* the path.
WriteAllEnd(hash, body) == [modLocal EXCEPT ![hash] = File(body, 0)]

ModBump(c) == [mm EXCEPT ![c] = @ + 1]

ModFreeSlot(p) ==
    /\ mrq[p].pc = "idle"
    /\ \A q \in Procs : q < p => mrq[q].pc # "idle"

ModFrame == <<remote, localAct, localObj, conc, rq, res, tasks, m, closed, faultLimit,
              inst, hist, cfgVars>>

\* Get up to the semaphore: makePath and openReader of the local file.
ModGetLocal(p, name) ==
    /\ ModFreeSlot(p) /\ mclosed = "open" /\ nGets < MaxGets
    /\ nGets' = nGets + 1
    /\ LET hash == hashName(name)
           counted == [mm EXCEPT !.getRequest = @ + 1]
           waiting == [ModIdle EXCEPT !.pc = "acquire", !.name = name, !.hash = hash]
       IN  \/ /\ CanFault                      \* MkdirAll fails
              /\ faults' = faults + 1
              /\ mm' = [counted EXCEPT !.pathError = @ + 1]
              /\ mres' = ModResult("get", name, Empty, "mkdir")
              /\ UNCHANGED mrq
           \/ /\ modLocal[hash].present         \* local hit
              /\ mm' = [counted EXCEPT !.getLocalHit = @ + 1,
                                       !.getLocalBytes = @ + Len(modLocal[hash].body)]
              /\ mres' = ModResult("get", name, modLocal[hash].body, "nil")
              /\ UNCHANGED <<mrq, faults>>
           \/ /\ ~modLocal[hash].present        \* local miss
              /\ mm' = [counted EXCEPT !.getLocalMiss = @ + 1]
              /\ mrq' = [mrq EXCEPT ![p] = waiting]
              /\ UNCHANGED <<mres, faults>>
           \/ /\ modLocal[hash].present /\ CanFault   \* read error, treated as a miss
              /\ faults' = faults + 1
              /\ mm' = [counted EXCEPT !.getLocalError = @ + 1]
              /\ mrq' = [mrq EXCEPT ![p] = waiting]
              /\ UNCHANGED mres
    /\ UNCHANGED <<modLocal, mtasks, mclosed, nPuts>>
    /\ UNCHANGED ModFrame
    /\ UNCHANGED sema

\* c.sema.Acquire(ctx, 1)
ModGetAcquire(p) ==
    /\ mrq[p].pc = "acquire"
    /\ SemaFree
    /\ mrq' = [mrq EXCEPT ![p].pc = "fetch"]
    /\ UNCHANGED <<modLocal, mres, mtasks, mm, mclosed, nPuts, nGets, faults>>
    /\ UNCHANGED ModFrame
    /\ sema' = semaAcquire(sema)

\* c.sema.Acquire(ctx, 1) returns ctx.Err(): the request was cancelled while
\* the Get was waiting for a slot, or before it asked for one.  The Get
\* returns the error; the deferred Release is not registered yet.
ModGetAcquireCancelled(p) ==
    /\ mrq[p].pc = "acquire"
    /\ mres' = ModResult("get", mrq[p].name, Empty, "canceled")
    /\ mrq' = [mrq EXCEPT ![p] = ModIdle]
    /\ UNCHANGED <<modLocal, mtasks, sema, mm, mclosed, nPuts, nGets, faults>>
    /\ UNCHANGED ModFrame

\* c.Client.Get(ctx, c.makeKey(hash)) and the counters of its answer.
ModGetFetch(p) ==
    /\ mrq[p].pc = "fetch"
    /\ \E got \in ClientGet(modKey(mrq[p].hash)) :
          /\ faults' = faults + Injected(got.err)
          /\ IF got.err = "ErrNotExist"
             THEN /\ mm' = ModBump("getFaultMiss")
                  /\ mres' = ModResult("get", mrq[p].name, Empty, got.err)
                  /\ mrq' = [mrq EXCEPT ![p] = ModIdle]
                  /\ sema' = semaRelease(sema)
             ELSE IF got.err # "nil"
             THEN /\ mm' = ModBump("getFaultError")
                  /\ mres' = ModResult("get", mrq[p].name, Empty, got.err)
                  /\ mrq' = [mrq EXCEPT ![p] = ModIdle]
                  /\ sema' = semaRelease(sema)
             ELSE /\ mm' = ModBump("getFaultHit")
                  /\ mrq' = [mrq EXCEPT ![p].pc = "stage", ![p].body = got.data]
                  /\ UNCHANGED <<mres, sema>>
    /\ UNCHANGED <<modLocal, mtasks, mclosed, nPuts, nGets>>
    /\ UNCHANGED ModFrame

\* putLocal of the fetched object: os.Stat, and the start of WriteAll.  When
\* the file is there already, Get goes on to openReader at once.
ModGetStage(p) ==
    /\ mrq[p].pc = "stage"
    /\ LET hash == mrq[p].hash
       IN  \/ /\ ModStatFound(hash)
              /\ mres' = ModResult("get", mrq[p].name, modLocal[hash].body, "nil")
              /\ mrq' = [mrq EXCEPT ![p] = ModIdle]
              /\ sema' = semaRelease(sema)
              /\ UNCHANGED <<modLocal, mm, faults>>
           \/ /\ ~ModStatFound(hash) /\ CanFault        \* WriteAll fails
              /\ faults' = faults + 1
              /\ mm' = ModBump("putLocalError")
              /\ mres' = ModResult("get", mrq[p].name, Empty, "write")
              /\ mrq' = [mrq EXCEPT ![p] = ModIdle]
              /\ sema' = semaRelease(sema)
              /\ UNCHANGED modLocal
           \/ /\ ~ModStatFound(hash)
              /\ modLocal' = WriteAllBegin(hash, mrq[p].body)
              /\ mrq' = [mrq EXCEPT ![p].pc = "stageRename"]
              /\ UNCHANGED <<mres, mm, faults, sema>>
    /\ UNCHANGED <<mtasks, mclosed, nPuts, nGets>>
    /\ UNCHANGED ModFrame

ModGetRenameM(p) ==
    /\ mrq[p].pc = "stageRename"
    /\ modLocal' = WriteAllEnd(mrq[p].hash, mrq[p].body)
    /\ mm' = [mm EXCEPT !.putLocalBytes = @ + Len(mrq[p].body)]
    /\ mres' = ModResult("get", mrq[p].name, modLocal'[mrq[p].hash].body, "nil")
    /\ mtasks' = Append(mtasks,
                        [name |-> mrq[p].name, hash |-> mrq[p].hash, body |-> mrq[p].body,
                         size |-> Len(mrq[p].body), pc |-> "put", cancelled |-> FALSE,
                         timedOut |-> FALSE, err |-> "nil"])
    /\ mrq' = [mrq EXCEPT ![p] = ModIdle]
    /\ UNCHANGED <<mclosed, nPuts, nGets, faults>>
    /\ UNCHANGED ModFrame
    /\ sema' = semaRelease(sema)

\* The end of WriteAll, c.putLocalBytes.Add(nw), and openReader(path).
ModGetRename(p) ==
    /\ mrq[p].pc = "stageRename"
    /\ modLocal' = WriteAllEnd(mrq[p].hash, mrq[p].body)
    /\ mm' = [mm EXCEPT !.putLocalBytes = @ + Len(mrq[p].body)]
    /\ mres' = ModResult("get", mrq[p].name, modLocal'[mrq[p].hash].body, "nil")
    /\ mrq' = [mrq EXCEPT ![p] = ModIdle]
    /\ UNCHANGED <<mtasks, mclosed, nPuts, nGets, faults>>
    /\ UNCHANGED ModFrame
    /\ sema' = semaRelease(sema)

\* Put up to the rename: makePath, putLocal's os.Stat, the start of WriteAll.
ModPutLocal(p, in) ==
    /\ ModFreeSlot(p) /\ mclosed = "open" /\ nPuts < MaxPuts
    /\ nPuts' = nPuts + 1
    /\ LET hash == hashName(in.name)
           counted == [mm EXCEPT !.putRequest = @ + 1]
       IN  \/ /\ CanFault                      \* MkdirAll fails
              /\ faults' = faults + 1
              /\ mm' = [counted EXCEPT !.pathError = @ + 1]
              /\ mres' = ModResult("put", in.name, in.body, "mkdir")
              /\ UNCHANGED <<modLocal, mrq>>
           \/ /\ ModStatFound(hash)             \* putLocal: already stored locally
              /\ mm' = [counted EXCEPT !.putLocalHit = @ + 1]
              /\ mres' = ModResult("put", in.name, in.body, "nil")
              /\ UNCHANGED <<modLocal, mrq, faults>>
           \/ /\ ~ModStatFound(hash) /\ CanFault   \* WriteAll fails
              /\ faults' = faults + 1
              /\ mm' = [counted EXCEPT !.putLocalError = @ + 1]
              /\ mres' = ModResult("put", in.name, in.body, "write")
              /\ UNCHANGED <<modLocal, mrq>>
           \/ /\ ~ModStatFound(hash)
              /\ modLocal' = WriteAllBegin(hash, in.body)
              /\ mm' = counted
              /\ mrq' = [mrq EXCEPT ![p] =
                            [pc |-> "rename", name |-> in.name, hash |-> hash,
                             body |-> in.body, size |-> 0]]
              /\ UNCHANGED <<mres, faults>>
    /\ UNCHANGED <<mtasks, mclosed, nGets>>
    /\ UNCHANGED ModFrame
    /\ UNCHANGED sema

\* The end of WriteAll, c.putLocalBytes.Add(nw), and openFileSize(path).
ModPutRename(p) ==
    /\ mrq[p].pc = "rename"
    /\ modLocal' = WriteAllEnd(mrq[p].hash, mrq[p].body)
    /\ LET written == [mm EXCEPT !.putLocalBytes = @ + Len(mrq[p].body)]
       IN  \/ /\ CanFault                      \* openFileSize fails
              /\ faults' = faults + 1
              /\ mm' = [written EXCEPT !.putLocalError = @ + 1]
              /\ mres' = ModResult("put", mrq[p].name, mrq[p].body, "open")
              /\ mrq' = [mrq EXCEPT ![p] = ModIdle]
           \/ /\ mm' = written
              /\ mrq' = [mrq EXCEPT ![p].pc = "start",
                                    ![p].size = Len(modLocal'[mrq[p].hash].body)]
              /\ UNCHANGED <<mres, faults>>
    /\ UNCHANGED <<mtasks, mclosed, nPuts, nGets>>
    /\ UNCHANGED ModFrame
    /\ UNCHANGED sema

\* c.start(task): waits for a slot, starts the write-back, and Put returns nil.
ModPutStart(p) ==
    /\ mrq[p].pc = "start"
    /\ ModSlotFree
    /\ mtasks' = Append(mtasks,
                        [name |-> mrq[p].name, hash |-> mrq[p].hash, body |-> mrq[p].body,
                         size |-> mrq[p].size, pc |-> "put", cancelled |-> FALSE,
                         timedOut |-> FALSE, err |-> "nil"])
    /\ mres' = ModResult("put", mrq[p].name, mrq[p].body, "nil")
    /\ mrq' = [mrq EXCEPT ![p] = ModIdle]
    /\ UNCHANGED <<modLocal, mm, mclosed, faults, nPuts, nGets>>
    /\ UNCHANGED ModFrame
    /\ UNCHANGED sema

\* The write-back: Client.Put of the open file under sctx.
ModTaskPut(i) ==
    /\ i \in 1..Len(mtasks) /\ mtasks[i].pc = "put"
    /\ \/ /\ ~ModSctxDone(mtasks[i])
          /\ remote' = StorePut(remote, modKey(mtasks[i].hash), mtasks[i].body)
          /\ mm' = [mm EXCEPT !.putStorageBytes = @ + mtasks[i].size]
          /\ mtasks' = [mtasks EXCEPT ![i].pc = "done"]
          /\ UNCHANGED faults
       \/ /\ ModSctxDone(mtasks[i]) \/ CanFault
          /\ faults' = IF ModSctxDone(mtasks[i]) THEN faults ELSE faults + 1
          /\ mm' = ModBump("putStorageError")
          /\ mtasks' = [mtasks EXCEPT ![i].pc = "done", ![i].err = "put"]
          /\ UNCHANGED remote
    /\ UNCHANGED <<modLocal, mrq, mres, mclosed, nPuts, nGets>>
    /\ UNCHANGED <<localAct, localObj, conc, rq, res, tasks, m, closed, faultLimit,
                   inst, hist, cfgVars>>
    /\ UNCHANGED sema

\* The write-back's one-minute deadline passes while it is still running.
ModTaskTimeout(i) ==
    /\ i \in 1..Len(mtasks) /\ ModActive(i) /\ ~mtasks[i].timedOut
    /\ CanFault
    /\ faults' = faults + 1
    /\ mtasks' = [mtasks EXCEPT ![i].timedOut = TRUE]
    /\ UNCHANGED <<modLocal, mrq, mres, mm, mclosed, nPuts, nGets>>
    /\ UNCHANGED ModFrame
    /\ UNCHANGED sema

\* The HTTP request that issued the Put is cancelled after the Put returned.
ModCancelRequest(i) ==
    /\ i \in 1..Len(mtasks) /\ ModActive(i) /\ ~mtasks[i].cancelled
    /\ mtasks' = [mtasks EXCEPT ![i].cancelled = TRUE]
    /\ UNCHANGED <<modLocal, mrq, mres, mm, mclosed, nPuts, nGets, faults>>
    /\ UNCHANGED ModFrame
    /\ UNCHANGED sema

\* A file of the local directory is removed from outside the adapter.
ModEvict(hash) ==
    /\ mclosed = "open"
    /\ modLocal[hash].present
    /\ modLocal' = [modLocal EXCEPT ![hash] = NoFile]
    /\ UNCHANGED <<mrq, mres, mtasks, mm, mclosed, nPuts, nGets, faults>>
    /\ UNCHANGED ModFrame
    /\ UNCHANGED sema

\* StorageCacher.Close: c.tasks.Wait().
ModCloseCall ==
    /\ mclosed = "open"
    /\ \A p \in Procs : mrq[p].pc = "idle"
    /\ mclosed' = "waiting"
    /\ UNCHANGED <<modLocal, mrq, mres, mtasks, mm, nPuts, nGets, faults>>
    /\ UNCHANGED ModFrame
    /\ UNCHANGED sema

ModCloseReturn ==
    /\ mclosed = "waiting"
    /\ ModActiveTasks = {}
    /\ mclosed' = "closed"
    /\ UNCHANGED <<modLocal, mrq, mres, mtasks, mm, nPuts, nGets, faults>>
    /\ UNCHANGED ModFrame
    /\ UNCHANGED sema

ModCloseResultM == "nil"

\* What Close returns: c.tasks.Wait() reports the first error that a
\* write-back of the group returned, or nil when none failed.
ModCloseResult ==
    IF \E i \in 1..Len(mtasks) : mtasks[i].err # "nil"
    THEN mtasks[CHOOSE i \in 1..Len(mtasks) : mtasks[i].err # "nil"].err
    ELSE "nil"

(***************************************************************************)
(* Specifications.                                                         *)
(***************************************************************************)
Requests ==
    \/ \E p \in Procs, a \in ActionIDs : GetLocal(p, a)
    \/ \E p \in Procs : GetAction(p)
    \/ \E p \in Procs : GetOutput(p)
    \/ \E p \in Procs : GetStage(p)
    \/ \E p \in Procs, in \in PutInputs : PutLocal(p, in)
    \/ \E p \in Procs : PutStart(p)

Uploads ==
    \/ \E i \in 1..Len(tasks) : TaskOpen(i)
    \/ \E i \in 1..Len(tasks) : TaskCond(i)
    \/ \E i \in 1..Len(tasks) : TaskWrite(i)
    \/ \E i \in 1..Len(tasks) : TaskAction(i)
    \/ \E i \in 1..Len(tasks) : TaskTimeout(i)

Shutdown == CloseCall \/ CloseReturn

\* One instance of the build adapter over an empty bucket, with failures.
Next == Requests \/ Uploads \/ Shutdown

Spec == Init /\ [][Next]_vars

\* A bucket that other writers and lifecycle rules have left in a state this
\* engine alone would not produce.
DanglingStore == StorePut(EmptyStore, actionKey(A1), formatAction(O2, 5))
MalformedStore == StorePut(EmptyStore, actionKey(A1), <<"z", "z">>)
GarbageStore ==
    StorePut(StorePut(EmptyStore, actionKey(A2), formatAction(O1, 5) \o <<" ", "g">>),
             outputKey(O1), BodyOf(O1))
ForeignStore == StorePut(EmptyStore, outputKey(O2), <<"q">>)
SeedStores == {DanglingStore, MalformedStore, GarbageStore, ForeignStore}

InitSeeded == InitConfig /\ remote \in SeedStores /\ faultLimit = MaxFaults /\ InitLocal

SpecSeeded == InitSeeded /\ [][Next]_vars

\* Instances that are closed and followed by a fresh process on the same
\* bucket.
NextFresh == Next \/ Restart

SpecFresh == Init /\ [][NextFresh]_vars

\* The write paths of both adapters in one process, with the requests that
\* issued the Puts being cancelled while the uploads run.
BuildPuts ==
    \/ \E p \in Procs, in \in PutInputs : PutLocal(p, in)
    \/ \E p \in Procs : PutStart(p)

ModPuts ==
    \/ \E p \in Procs, in \in ModInputs : ModPutLocal(p, in)
    \/ \E p \in Procs : ModPutRename(p)
    \/ \E p \in Procs : ModPutStart(p)

ModUploads ==
    \/ \E i \in 1..Len(mtasks) : ModTaskPut(i)
    \/ \E i \in 1..Len(mtasks) : ModTaskTimeout(i)

Cancels ==
    \/ \E i \in 1..Len(tasks) : CancelRequest(i)
    \/ \E i \in 1..Len(mtasks) : ModCancelRequest(i)

ModShutdown == ModCloseCall \/ ModCloseReturn

NextCancel ==
    BuildPuts \/ Uploads \/ Shutdown \/ ModPuts \/ ModUploads \/ ModShutdown \/ Cancels

SpecCancel == Init /\ [][NextCancel]_vars

\* The module adapter alone, with any value of MaxTasks, over an empty
\* bucket, with failures and with files removed from its local directory.
ModGets ==
    \/ \E p \in Procs, name \in ModNames : ModGetLocal(p, name)
    \/ \E p \in Procs : ModGetAcquire(p)
    \/ \E p \in Procs : ModGetAcquireCancelled(p)
    \/ \E p \in Procs : ModGetFetch(p)
    \/ \E p \in Procs : ModGetStage(p)
    \/ \E p \in Procs : ModGetRename(p)

ModEvicts == \E hash \in ModHashes : ModEvict(hash)

NextMod == ModGets \/ ModPuts \/ ModUploads \/ ModShutdown \/ ModEvicts

InitMod ==
    /\ KeyPrefix = FlagKeyPrefix /\ MaxTasks \in MaxTasksChoices
    /\ remote = EmptyStore /\ faultLimit = MaxFaults /\ InitLocal

SpecMod == InitMod /\ [][NextMod]_vars

\* The write paths of both adapters, with any value of the key prefix.
InitKeys ==
    /\ KeyPrefix \in PrefixChoices /\ MaxTasks = 0
    /\ remote = EmptyStore /\ faultLimit = MaxFaults /\ InitLocal

SpecKeys == InitKeys /\ [][NextCancel]_vars

\* Every operation of either adapter, with any value of the concurrency
\* fields.  The process serves the build cache and the module proxy from one
\* bucket; in a run one of the two adapters is serving and the other has
\* been closed.
NextEither == Next \/ NextMod

InitEither ==
    /\ closed \in {"open", "closed"}
    /\ mclosed = (IF closed = "open" THEN "closed" ELSE "open")
    /\ KeyPrefix = FlagKeyPrefix
    /\ MaxTasks \in (IF mclosed = "open" THEN MaxTasksChoices ELSE {0})
    /\ remote = EmptyStore /\ faultLimit = MaxFaults
    /\ localAct = [a \in ActionIDs |-> Empty]
    /\ localObj = [o \in OutputIDs |-> NoFile]
    /\ conc \in ConcurrencyChoices
    /\ rq = [p \in Procs |-> Idle]
    /\ res = NoRes
    /\ tasks = <<>>
    /\ m = ZeroMetrics
    /\ faults = 0
    /\ inst = 0
    /\ hist = {}
    /\ nPuts = 0
    /\ nGets = 0
    /\ modLocal = [h \in ModHashes |-> NoFile]
    /\ mrq = [p \in Procs |-> ModIdle]
    /\ mres = ModNoRes
    /\ mtasks = <<>>
    /\ sema = 0
    /\ mm = ZeroModMetrics

SpecEither == InitEither /\ [][NextEither]_vars

\* The write path of the build adapter when a later build stores an action
\* again: the same action and output ids, with the modification time of the
\* new build's file.
RebuildInputs == PutInputs \cup {[a |-> A2, o |-> O2, t |-> 5]}

NextRebuild ==
    \/ \E p \in Procs, in \in RebuildInputs : PutLocal(p, in)
    \/ \E p \in Procs : PutStart(p)
    \/ Uploads
    \/ Shutdown

SpecRebuild == Init /\ [][NextRebuild]_vars

\* The write path of the build adapter and its shutdown, with the requests
\* that issued the Puts being cancelled, under the scheduling the runtime
\* gives: a started upload task keeps being scheduled until it returns, each
\* of its remote operations completes or fails, and Close goes on once
\* push.Wait can return.
TaskStep(i) == TaskOpen(i) \/ TaskCond(i) \/ TaskWrite(i) \/ TaskAction(i)

NextDrain ==
    \/ BuildPuts
    \/ Uploads
    \/ Shutdown
    \/ \E i \in 1..Len(tasks) : CancelRequest(i)

FairDrain ==
    /\ \A i \in 1..MaxPuts : WF_vars(TaskStep(i))
    /\ WF_vars(CloseReturn)

SpecDrain == Init /\ [][NextDrain]_vars /\ FairDrain

(***************************************************************************)
(* Properties.                                                             *)
(***************************************************************************)
Small(o) == Len(BodyOf(o)) < MinUploadSize
EligiblePuts == Len(tasks) + Cardinality({p \in Procs : rq[p].pc = "putStart"})
Cap == IF conc <= 0 THEN NumCPU ELSE conc
RemoteActions == {a \in ActionIDs : actionKey(a) \in DOMAIN remote}

\* C1: output before action.  Every action record in the bucket parses and
\* names an output whose object is in the bucket, and a Get that has read an
\* action record and is about to read its output finds the output present.
C1_OutputBeforeAction ==
    /\ \A a \in RemoteActions :
          LET act == parseAction(remote[actionKey(a)])
          IN  act.ok /\ outputKey(act.o) \in DOMAIN remote
    /\ \A p \in Procs : rq[p].pc = "getOutput" => outputKey(rq[p].o) \in DOMAIN remote

\* A Get reads its output while an upload task is running and the bucket
\* holds an action record.
C1_Witness ==
    \E p \in Procs : rq[p].pc = "getOutput" /\ ActiveTasks # {} /\ RemoteActions # {}

\* The remote reads of a fresh Get that followed Puts of its action in an
\* earlier, closed instance.
PutsOf(a) == {h \in hist : h.a = a}
FreshGetDone ==
    /\ inst > 0 /\ faults = 0
    /\ res.op = "get" /\ res.via = "remote"
    /\ \E h \in PutsOf(res.a) : h.inst < inst

\* C2: write-through durability.  With no failure injected, a Get served
\* from the bucket by a fresh instance, for an action that an eligible Put of
\* an earlier instance stored before its Close completed, returns that Put's
\* output id and the path of a staged file with that Put's bytes and mtime.
C2_WriteThroughDurability ==
    FreshGetDone =>
        /\ res.err = "nil"
        /\ \E h \in PutsOf(res.a) :
              /\ res.out = h.o
              /\ res.path = DiskPath(h.o)
              /\ res.file = File(BodyOf(h.o), h.t)

\* C3: conditional-put dedup.  With no failure injected, of the upload tasks
\* of one output id whose PutCond has answered, exactly one wrote the object
\* and every other found it; and every such task that is done wrote its
\* action record.
StoredTasks(o) == {i \in 1..Len(tasks) : tasks[i].o = o /\ tasks[i].stored # "none"}
C3_ConditionalPutDedup ==
    faults = 0 =>
        \A o \in OutputIDs :
            StoredTasks(o) # {} =>
                /\ Cardinality({i \in StoredTasks(o) : tasks[i].stored = "written"}) = 1
                /\ m.putGCSObject = 1
                /\ m.putGCSFound = Cardinality(StoredTasks(o)) - 1

\* C4 as claimed: after Close, put_gcs_object + put_gcs_found is the number
\* of eligible Puts.
C4_UploadAccountingClaimed ==
    closed = "closed" => m.putGCSObject + m.putGCSFound = EligiblePuts

\* C4, amended: after Close, put_gcs_object + put_gcs_found + put_gcs_error
\* is the number of eligible Puts: a task whose upload of the object failed
\* is counted as an error instead.
C4_UploadAccounting ==
    closed = "closed" =>
        m.putGCSObject + m.putGCSFound + m.putGCSError = EligiblePuts

\* Close has completed after two eligible Puts, one uploaded or found and
\* one failed.
C4_Witness ==
    /\ closed = "closed" /\ Len(tasks) = 2
    /\ m.putGCSError = 1 /\ m.putGCSObject + m.putGCSFound = 1

\* C5: skip-small.  No upload task and no Put waiting to start one is for an
\* object below MinUploadSize; and a Put of such an object that succeeds
\* locally returns in the same step, with the bucket and the task group
\* unchanged and put_skip_small one higher.
C5_SkipSmall ==
    /\ [](/\ \A i \in 1..Len(tasks) : ~Small(tasks[i].o)
          /\ \A p \in Procs : rq[p].pc = "putStart" => ~Small(rq[p].o))
    /\ [][(nPuts' = nPuts + 1 /\ rq' = rq /\ res'.err = "nil" /\ Small(res'.out)) =>
             /\ remote' = remote
             /\ tasks' = tasks
             /\ m' = [m EXCEPT !.putSkipSmall = @ + 1]]_vars

\* A small Put has returned its path; nothing was sent to the bucket.
C5_Witness ==
    /\ res.op = "put" /\ res.err = "nil" /\ Small(res.out) /\ res.path # Empty
    /\ m.putSkipSmall = 1 /\ tasks = <<>> /\ remote = EmptyStore

\* C6: miss discrimination.  When the read of the action record ends a Get,
\* the Get returns ("", "", nil) with get_fault_miss one higher exactly when
\* the bucket had no such record and the transport did not fail; when the
\* transport failed, the Get returns an error and get_fault_miss is unchanged.
ActionReadEnds(p) == rq[p].pc = "getAction" /\ rq'[p].pc = "idle"
C6_MissDiscrimination ==
    [][\A p \in Procs :
          ActionReadEnds(p) =>
              LET absent == actionKey(rq[p].a) \notin DOMAIN remote
                  failed == faults' = faults + 1
                  miss   == /\ res' = GetResult(rq[p].a, Empty, Empty, "nil", "remote", NoFile)
                            /\ m' = [m EXCEPT !.getFaultMiss = @ + 1]
              IN  /\ (absent /\ ~failed) <=> miss
                  /\ failed => (res'.err # "nil" /\ m' = m)]_vars

\* A Get has returned a miss, and another an error of the transport.
C6_Witness ==
    /\ m.getFaultMiss = 1 /\ faults = 1
    /\ res.op = "get" /\ res.err = "read action"

\* C7: a dangling action is an error.  When a Get has read a well-formed
\* action record and the bucket has no object for the output it names, the
\* Get returns an error, get_fault_miss and get_fault_hit stay as they were,
\* and the local stage is not written.
C7_DanglingActionIsError ==
    [][\A p \in Procs :
          (/\ rq[p].pc = "getOutput" /\ rq'[p].pc = "idle"
           /\ outputKey(rq[p].o) \notin DOMAIN remote) =>
              /\ res'.op = "get" /\ res'.a = rq[p].a
              /\ res'.err # "nil" /\ res'.out = Empty /\ res'.path = Empty
              /\ m'.getFaultMiss = m.getFaultMiss
              /\ m'.getFaultHit = m.getFaultHit
              /\ localAct' = localAct /\ localObj' = localObj]_vars

\* A Get of the dangling action has returned the error; nothing failed in
\* the transport.
C7_Witness ==
    /\ remote = DanglingStore /\ faults = 0
    /\ res.op = "get" /\ res.a = A1 /\ res.err = "read object"
    /\ m.getFaultMiss = 0 /\ m.getFaultHit = 0
    /\ localAct[A1] = Empty

\* C8: background isolation.  With no failure injected, cancelling the
\* request that issued a Put while its upload is running does not fail the
\* upload: once Close has returned, every upload of the build adapter,
\* cancelled ones included, stored its object and its action record and is
\* counted in put_gcs_object + put_gcs_found and in put_gcs_action; once the
\* module adapter's Close has returned, every write-back, cancelled ones
\* included, stored its object and put_storage_bytes is the sum of their sizes.
RECURSIVE SumSizes(_)
SumSizes(ts) == IF ts = <<>> THEN 0 ELSE Head(ts).size + SumSizes(Tail(ts))

C8_BackgroundIsolation ==
    faults = 0 =>
        /\ closed = "closed" =>
              /\ \A i \in 1..Len(tasks) :
                    /\ tasks[i].err = "nil" /\ tasks[i].stored # "none"
                    /\ outputKey(tasks[i].o) \in DOMAIN remote
                    /\ actionKey(tasks[i].a) \in DOMAIN remote
              /\ m.putGCSObject + m.putGCSFound = Len(tasks)
              /\ m.putGCSAction = Len(tasks)
              /\ m.putGCSError = 0
        /\ mclosed = "closed" =>
              /\ \A i \in 1..Len(mtasks) :
                    /\ mtasks[i].err = "nil"
                    /\ modKey(mtasks[i].hash) \in DOMAIN remote
                    /\ remote[modKey(mtasks[i].hash)] = mtasks[i].body
              /\ mm.putStorageBytes = SumSizes(mtasks)
              /\ mm.putStorageError = 0

C8_Witness ==
    /\ faults = 0 /\ closed = "closed" /\ mclosed = "closed"
    /\ \E i \in 1..Len(tasks) : tasks[i].cancelled /\ tasks[i].stored = "written"
    /\ \E i \in 1..Len(mtasks) : mtasks[i].cancelled
    /\ m.putGCSAction = 1 /\ mm.putStorageBytes > 0

\* C9: drain at shutdown.  Close has returned only when no upload task is
\* running, and from then on the bucket, the task group and the counters
\* do not change.
C9_DrainAtShutdown ==
    /\ [](closed = "closed" => \A i \in 1..Len(tasks) : tasks[i].pc = "done")
    /\ [][(closed = "closed" /\ closed' = "closed") =>
             (remote' = remote /\ tasks' = tasks /\ m' = m)]_vars

\* Close returned after waiting for two uploads.
C9_Witness ==
    /\ closed = "closed" /\ Len(tasks) = 2
    /\ \A i \in 1..Len(tasks) : tasks[i].pc = "done"
    /\ m.putGCSAction = 2

\* C10: bounded upload concurrency.  The upload tasks that are running never
\* number more than UploadConcurrency, or NumCPU when UploadConcurrency <= 0.
C10_BoundedUploads == Cardinality(ActiveTasks) <= Cap

\* The limiter is full and a Put waits in start for a slot.
C10_Witness ==
    /\ Cardinality(ActiveTasks) = Cap
    /\ \E p \in Procs : rq[p].pc = "putStart"

\* C11: bounded module fault-ins and write-backs.  The Gets between the
\* semaphore's Acquire and Release, and the write-back tasks that are running,
\* never number more than MaxTasks, or than NumCPU when MaxTasks <= 0.
ModCap == IF MaxTasks <= 0 THEN NumCPU ELSE MaxTasks

C11_BoundedModuleTasks ==
    /\ Cardinality({p \in Procs : mrq[p].pc \in {"fetch", "stage", "stageRename"}}) <= ModCap
    /\ Cardinality({i \in 1..Len(mtasks) : mtasks[i].pc # "done"}) <= ModCap

\* With MaxTasks = 1: a fault-in holds the semaphore, a write-back runs, and
\* a Put waits for the group's slot.
C11_Witness ==
    /\ MaxTasks = 1
    /\ Cardinality(SemaHolders) = 1 /\ Cardinality(ModActiveTasks) = 1
    /\ \E p \in Procs : mrq[p].pc = "start"

\* C12: local-first Put.  A build Put that returns success returns with its
\* output's file in the local stage, holding the body; and a Put whose local
\* write fails returns the error, starts no upload task, leaves the bucket
\* unchanged and changes no counter.
PutReturns(p) ==
    \/ nPuts' = nPuts + 1 /\ rq'[p] = rq[p] /\ res'.op = "put"
    \/ rq[p].pc = "putStart" /\ rq'[p].pc = "idle"

C12_LocalFirstPut ==
    [][\A p \in Procs :
          /\ (PutReturns(p) /\ res'.err = "nil") =>
                /\ localObj'[res'.out].present
                /\ localObj'[res'.out].body = BodyOf(res'.out)
                /\ res'.path = DiskPath(res'.out)
          /\ (nPuts' = nPuts + 1 /\ faults' = faults + 1) =>
                /\ res'.op = "put" /\ res'.err # "nil" /\ res'.path = Empty
                /\ rq' = rq /\ tasks' = tasks /\ remote' = remote /\ m' = m
                /\ localObj' = localObj /\ localAct' = localAct]_vars

\* A Put's local write has failed, and the Put returned the error.
C12_Witness ==
    /\ res.op = "put" /\ res.err = "local put"
    /\ faults = 1 /\ nPuts = 2 /\ Len(tasks) = 1

\* C13: background errors are swallowed and counted.  Every step in which an
\* upload task of the build adapter fails raises put_gcs_error by one, every
\* step in which a write-back of the module adapter fails raises
\* put_storage_error by one, and neither changes the result a Put returned.
C13_BackgroundErrorsCounted ==
    [][/\ \A i \in 1..Len(tasks) :
             (Len(tasks') = Len(tasks) /\ tasks[i].err = "nil" /\ tasks'[i].err # "nil") =>
                 m'.putGCSError = m.putGCSError + 1 /\ res' = res
       /\ \A i \in 1..Len(mtasks) :
             (Len(mtasks') = Len(mtasks) /\ mtasks[i].err = "nil" /\ mtasks'[i].err # "nil") =>
                 mm'.putStorageError = mm.putStorageError + 1 /\ mres' = mres]_vars

\* C14: mtime preservation through the action record.  With no failure
\* injected, the action record an upload task writes is exactly its Put's
\* output id, a space, and its Put's modification time in decimal; and a Get
\* by a fresh instance, whose local stage is empty, stages the output with
\* the modification time of a Put of that action and output.
C14_MtimePreservation ==
    /\ [][\A i \in 1..Len(tasks) :
             (/\ faults' = 0 /\ Len(tasks') = Len(tasks)
              /\ tasks[i].pc = "action" /\ tasks'[i].pc = "done" /\ tasks'[i].err = "nil") =>
                 remote'[actionKey(tasks[i].a)] = formatAction(tasks[i].o, tasks[i].t)]_vars
    /\ [](FreshGetDone /\ res.err = "nil" =>
             \E h \in PutsOf(res.a) : h.o = res.out /\ res.file.mtime = h.t)

\* C15: idempotent Get.  With no failure injected: when the result most
\* recently returned is a Get's hit for action a and no Put is between its
\* local write and its return, a Get of a issued now returns at once with
\* the same output id and path, served from the local stage: get_local_hit
\* rises by one, no other counter changes, and no remote read is started.
GetIssued(a) ==
    /\ nGets' = nGets + 1
    /\ \/ rq' = rq /\ res'.op = "get" /\ res'.a = a
       \/ \E p \in Procs : rq'[p] # rq[p] /\ rq'[p].a = a

C15_IdempotentGet ==
    [][\A a \in ActionIDs :
          (/\ GetIssued(a) /\ faults' = 0
           /\ res.op = "get" /\ res.a = a /\ res.err = "nil" /\ res.out # Empty
           /\ \A p \in Procs : rq[p].pc # "putStart") =>
              /\ rq' = rq /\ remote' = remote
              /\ res'.err = "nil" /\ res'.via = "local"
              /\ res'.out = res.out /\ res'.path = res.path
              /\ m' = [m EXCEPT !.getLocalHit = @ + 1]]_vars

\* A fresh instance's first Get of an action was served from the bucket and
\* its second from the local stage.
C15_Witness ==
    /\ inst = 1 /\ faults = 0 /\ nGets = 2
    /\ res.op = "get" /\ res.via = "local" /\ res.err = "nil"
    /\ m.getFaultHit = 1 /\ m.getLocalHit = 1

\* C16: key layout.  The key of id x under kind k is the prefix and a slash
\* (nothing when the prefix is empty), k, a slash, the first two characters
\* of x, a slash, x: the build adapter's action and output keys and the
\* module adapter's keys (kind "module", x the digest of the name) have this
\* form, every key in the bucket is such a key, and none starts with a slash.
LayoutKey(kind, x) ==
    (IF KeyPrefix = <<>> THEN <<>> ELSE KeyPrefix \o <<"/">>)
        \o kind \o <<"/">> \o <<x[1], x[2]>> \o <<"/">> \o x

LayoutKeys ==
    {LayoutKey(<<"a", "c", "t", "i", "o", "n">>, a) : a \in ActionIDs}
        \cup {LayoutKey(<<"o", "u", "t", "p", "u", "t">>, o) : o \in OutputIDs}
        \cup {LayoutKey(<<"m", "o", "d", "u", "l", "e">>, h) : h \in ModHashes}

ModPutIssued(in) ==
    /\ nPuts' = nPuts + 1
    /\ \/ mrq' = mrq /\ mres' = ModResult("put", in.name, in.body, mres'.err)
       \/ \E p \in Procs : mrq'[p] # mrq[p] /\ mrq'[p].name = in.name

ModPutElisionStep ==
    /\ \A in \in ModInputs :
          (ModPutIssued(in) /\ faults' = faults) =>
              IF modLocal[hashName(in.name)].present
              THEN /\ modLocal' = modLocal /\ mtasks' = mtasks /\ remote' = remote
                   /\ mrq' = mrq /\ mres'.err = "nil"
                   /\ mm' = [mm EXCEPT !.putRequest = @ + 1, !.putLocalHit = @ + 1]
              ELSE /\ \E p \in Procs : mrq'[p].pc = "rename" /\ mrq'[p].body = in.body
                   /\ mm'.putLocalHit = mm.putLocalHit
                   /\ mtasks' = mtasks /\ remote' = remote
    /\ \A p \in Procs :
          /\ (mrq[p].pc = "rename" /\ mrq'[p] # mrq[p] /\ faults' = faults) =>
                /\ modLocal'[mrq[p].hash] = File(mrq[p].body, 0)
                /\ mrq'[p].pc = "start"
          /\ (mrq[p].pc = "start" /\ mrq'[p].pc = "idle") =>
                /\ Len(mtasks') = Len(mtasks) + 1
                /\ mtasks'[Len(mtasks')].name = mrq[p].name
                /\ mtasks'[Len(mtasks')].body = mrq[p].body
                /\ SubSeq(mtasks', 1, Len(mtasks)) = mtasks
                /\ mres' = ModResult("put", mrq[p].name, mrq[p].body, "nil")
    /\ Len(mtasks') # Len(mtasks) =>
          \E p \in Procs : mrq[p].pc = "start" /\ mrq'[p].pc = "idle"

C17_ModulePutElision ==
    /\ [][ModPutElisionStep]_vars
    /\ [](faults = 0 =>
             Len(mtasks) + Cardinality({p \in Procs : mrq[p].pc \in {"rename", "start"}})
                 = mm.putRequest - mm.putLocalHit)

\* One Put wrote the file and started its write-back; a second Put of the
\* name was a local hit.
C17_Witness ==
    /\ faults = 0 /\ mm.putRequest = 2 /\ mm.putLocalHit = 1 /\ Len(mtasks) = 1
    /\ mres.op = "put" /\ mres.err = "nil"

\* C18: module fault-in round trip and byte counters.  With no failure
\* injected, when the one Put of a run, of a body of n bytes, has been
\* written back, its local file removed, and the one Get of the run has
\* returned the name's data through a fault-in: the Get returned the body,
\* get_fault_hit = 1, put_storage_bytes = n and get_storage_bytes = n.
RoundTripDone ==
    /\ faults = 0 /\ nPuts = 1 /\ nGets = 1
    /\ mres.op = "get" /\ mres.err = "nil"
    /\ mm.getFaultHit = 1

C18_ModuleRoundTrip ==
    RoundTripDone =>
        \E in \in ModInputs :
            /\ in.name = mres.name /\ mres.body = in.body
            /\ mm.putStorageBytes = Len(in.body)
            /\ mm.getStorageBytes = Len(in.body)

\* C19: remote records are never deleted.  No step of either adapter (Get,
\* Put, upload task, write-back, Close) removes a key from the bucket.
C19_RemoteNeverDeleted == [][DOMAIN remote \subseteq DOMAIN remote']_vars

\* The build adapter has stored an output and its action record, has
\* replaced nothing, and has been closed.
C19_Witness ==
    /\ closed = "closed" /\ mclosed = "closed"
    /\ Cardinality(DOMAIN remote) = 2
    /\ m.putGCSAction = 2 /\ m.putGCSObject = 1

\* C20: no torn reads.  In the module adapter, whatever requests are
\* writing the file of a name or its object: every Get that returns data
\* returns the complete body of the name, every file a reader can open in
\* the local directory holds a complete body, and so do every object of the
\* bucket, every body a fault-in has fetched and every body a write-back
\* uploads.
CompleteBody(hash, body) ==
    \E in \in ModInputs : hashName(in.name) = hash /\ body = in.body

C20_NoTornReads ==
    /\ (mres.op = "get" /\ mres.err = "nil") => CompleteBody(hashName(mres.name), mres.body)
    /\ \A h \in ModHashes :
          /\ modLocal[h].present => CompleteBody(h, modLocal[h].body)
          /\ modKey(h) \in DOMAIN remote => CompleteBody(h, remote[modKey(h)])
    /\ \A p \in Procs : mrq[p].pc \in {"stage", "stageRename"} =>
          CompleteBody(mrq[p].hash, mrq[p].body)
    /\ \A i \in 1..Len(mtasks) : CompleteBody(mtasks[i].hash, mtasks[i].body)

\* A Get has returned the data of a name while a Put of the same name is
\* between the start of its write and the rename.
C20_Witness ==
    /\ mres.op = "get" /\ mres.err = "nil" /\ mres.body # Empty
    /\ \E p \in Procs : mrq[p].pc = "rename" /\ mrq[p].name = mres.name

BuildPutStarts(p) == rq[p].pc = "putStart" /\ rq'[p].pc = "idle"
ModPutStarts(p) == mrq[p].pc = "start" /\ mrq'[p].pc = "idle"

SubmissionStep ==
    /\ \A p \in Procs :
          /\ rq[p].pc = "putStart" =>
                (ENABLED PutStart(p) <=> Cardinality(ActiveTasks) < Cap)
          /\ BuildPutStarts(p) =>
                /\ Len(tasks') = Len(tasks) + 1
                /\ tasks'[Len(tasks')].pc = "open"
                /\ \A i \in 1..Len(tasks) : tasks'[i] = tasks[i]
                /\ res'.op = "put" /\ res'.err = "nil"
    /\ \A p \in Procs :
          /\ mrq[p].pc = "start" =>
                (ENABLED ModPutStart(p) <=> Cardinality(ModActiveTasks) < ModCap)
          /\ ModPutStarts(p) =>
                /\ Len(mtasks') = Len(mtasks) + 1
                /\ mtasks'[Len(mtasks')].pc = "put"
                /\ \A i \in 1..Len(mtasks) : mtasks'[i] = mtasks[i]
                /\ mres'.op = "put" /\ mres'.err = "nil"

BuildLocalReadError(p) ==
    rq[p].pc = "idle" /\ rq'[p].pc = "getAction" /\ faults' = faults + 1
ModLocalReadError(p) ==
    mrq[p].pc = "idle" /\ mrq'[p].pc = "acquire" /\ faults' = faults + 1

LocalReadErrorStep ==
    /\ \A p \in Procs : BuildLocalReadError(p) =>
          /\ \E c \in DOMAIN m : m'[c] = m[c] + 1
          /\ res' = res
          /\ rq'[p].a \in ActionIDs
    /\ \A p \in Procs : ModLocalReadError(p) =>
          /\ mm'.getLocalError = mm.getLocalError + 1
          /\ mm'.getLocalMiss = mm.getLocalMiss
          /\ mres' = mres
          /\ mrq'[p].name \in ModNames

\* C22: local read errors are counted and treated as misses.  When the
\* local lookup of a Get fails with an error other than not-found, the
\* adapter increments a counter for it, returns nothing to the caller at
\* that point, and goes on to the remote fetch as for a local miss.
C22_LocalErrorCounted == [][LocalReadErrorStep]_vars

\* C23: remote records are immutable.  Once a key of the bucket holds a
\* value, no step of a Put or of a background upload changes the value
\* stored at it: action records, output objects and module objects keep the
\* content they were created with.
C23_RemoteImmutable ==
    [][\A k \in DOMAIN remote : k \in DOMAIN remote' /\ remote'[k] = remote[k]]_vars

C25_CloseTerminates ==
    /\ \A i \in 1..MaxPuts :
          (i <= Len(tasks)) ~> (i <= Len(tasks) /\ tasks[i].pc = "done")
    /\ (closed = "waiting") ~> (closed = "closed")

\* Close has returned after waiting for a task whose request was cancelled
\* and for a task that ended with an error.
C25_Witness ==
    /\ closed = "closed"
    /\ \E i \in 1..Len(tasks) : tasks[i].cancelled
    /\ \E i \in 1..Len(tasks) : tasks[i].err # "nil"

\* The upload tasks that have passed the point where the outcome of the
\* output's write is counted.
CountedTasks == {i \in 1..Len(tasks) : tasks[i].pc \in {"action", "done"}}
UploadOutcomes == m.putGCSObject + m.putGCSFound + m.putGCSError

BuildGetSteps(p) ==
    \/ rq[p].pc = "idle" /\ rq'[p].pc = "getAction"
    \/ rq[p].pc \in {"getAction", "getOutput", "getStage"} /\ rq'[p] # rq[p]
ModGetSteps(p) ==
    \/ mrq[p].pc = "idle" /\ mrq'[p].pc = "acquire"
    \/ mrq[p].pc \in {"acquire", "fetch", "stage", "stageRename"} /\ mrq'[p] # mrq[p]
GetStep == nGets' # nGets \/ \E p \in Procs : BuildGetSteps(p) \/ ModGetSteps(p)

\* C27: Get is read-only towards the remote store.  No step of a Get of
\* either adapter, the staging of a faulted-in object included, changes the
\* bucket or starts an upload task or a write-back.
C27_GetReadOnly ==
    [][GetStep => /\ remote' = remote
                  /\ tasks' = tasks
                  /\ mtasks' = mtasks]_vars

\* A module Get has faulted an object in and staged it, and the only
\* write-back ever started is the one of the Put that stored the object.
C27_Witness ==
    /\ mres.op = "get" /\ mres.err = "nil" /\ mm.getFaultHit = 1
    /\ modLocal[hashName(mres.name)].present
    /\ Len(mtasks) = 1 /\ ModActiveTasks = {}

\* C28: fault-in semaphore slots never leak.  The slots in use are exactly
\* one for each Get between its acquisition and its return: a Get that
\* left by any path (remote not-found, remote error, staging error, success)
\* has given its slot back, a Get whose acquisition was cancelled holds none,
\* and when no Get is in progress every slot is free.
C28_NoSlotLeak ==
    /\ sema = Cardinality(SemaHolders)
    /\ sema \in 0..ModCap
    /\ (\A p \in Procs : mrq[p].pc = "idle") => sema = 0

\* No Get is in progress: one Get took a slot, asked the bucket and
\* returned, and the latest Get was cancelled while it waited for a slot.
C28_Witness ==
    /\ \A p \in Procs : mrq[p].pc = "idle"
    /\ mres.op = "get" /\ mres.err = "canceled"
    /\ mm.getFaultHit + mm.getFaultMiss + mm.getFaultError = 1

\* C29 as claimed: once a module Put of a name has returned nil and Close
\* has returned nil, the bucket holds the object of the name, also when the
\* Put found the local file already present.
C29_ModuleWriteThrough ==
    (/\ mclosed = "closed" /\ ModCloseResult = "nil"
     /\ mres.op = "put" /\ mres.err = "nil")
        => modKey(hashName(mres.name)) \in DOMAIN remote

\* C29, amended: once Close has returned nil, the bucket holds the object of
\* every name for which a Put wrote the local file and returned nil (a Put
\* that did not find the file already present).
C29_WriteThroughOfWrittenPuts ==
    (mclosed = "closed" /\ ModCloseResult = "nil") =>
        \A i \in 1..Len(mtasks) : modKey(hashName(mtasks[i].name)) \in DOMAIN remote

\* Close has returned nil after two Puts that wrote their files, the later
\* one after the file of the same name had been removed.
C29_Witness ==
    /\ mclosed = "closed" /\ ModCloseResult = "nil"
    /\ Len(mtasks) = 2 /\ mtasks[1].name = mtasks[2].name

\* A write-back of the module adapter issues its Client.Put.
ModTaskPuts(i) == mtasks[i].pc = "put" /\ mtasks'[i].pc = "done"

SharedClientStep ==
    /\ (~ClientClosed /\ ClientClosed') => (ActiveTasks = {} /\ ModActiveTasks = {})
    /\ \A i \in 1..Len(mtasks) : ModTaskPuts(i) => ~ClientClosed

\* C30: shared-client shutdown.  With both adapters on one GCS client, the
\* client is closed only when no upload of the build adapter and no
\* write-back of the module adapter is in flight, and no write-back issues
\* its remote Put after GCSCache.Close has closed the client.
C30_SharedClientShutdown == [][SharedClientStep]_vars

====
